---- MODULE Spec2Model ----
(***************************************************************************)
(* A model of the NAND flash simulator: the flash translation table kept   *)
(* by BaseNANDDisk, its raw page/block operations, the host operations     *)
(* that wrap them, and the garbage collector mixed into the disk class.    *)
(***************************************************************************)
EXTENDS Integers, Sequences, FiniteSets, TLC

VARIABLES
    total_blocks,             \* BaseNANDDisk.total_blocks
    pages_per_block,          \* BaseNANDDisk.pages_per_block
    gc_name,                  \* which garbage collector class is mixed in
    gc_param_mintime,         \* GarbageCollectorSimple.gc_param_mintime
    gc_param_dirtiness,       \* GarbageCollectorSimple.gc_param_dirtiness, <<num, den>>
    last_run,                 \* GarbageCollectorSimple._last_run
    ftl,                      \* _ftl[b][p], the status of every page
    empty,                    \* _ftl[b]['empty']
    dirty,                    \* _ftl[b]['dirty']
    death_times,              \* _death_times[b][p]
    elapsed_time,             \* _elapsed_time
    host_page_write_request,  \* _host_page_write_request
    page_write_executed,      \* _page_write_executed
    page_write_failed,        \* _page_write_failed
    host_page_read_request,   \* _host_page_read_request
    page_read_executed,       \* _page_read_executed
    block_erase_executed,     \* _block_erase_executed
    gc_forced_count,          \* _gc_forced_count
    call,                     \* the last public call: its arguments and what it returned
    before,                   \* the disk as it was when the last public call was made
    ncalls                    \* how many public calls were made

config == <<total_blocks, pages_per_block, gc_name, gc_param_mintime,
            gc_param_dirtiness, last_run>>
stats == <<elapsed_time, host_page_write_request, page_write_executed,
           page_write_failed, host_page_read_request, page_read_executed,
           block_erase_executed, gc_forced_count>>
flash == <<ftl, empty, dirty, death_times>>
vars == <<config, flash, stats, call, before, ncalls>>

----------------------------------------------------------------------------
(* Bounds of the model. *)
MaxBlocks == 2
MaxPages == 4
MaxCalls == 3

(* Program constants. *)
write_page_time == 40
read_page_time == 20
erase_block_time == 1500

PAGE_EMPTY == "EMPTY"
PAGE_IN_USE == "IN_USE"
PAGE_DIRTY == "DIRTY"
OPERATION_SUCCESS == "SUCCESS"
OPERATION_FAILED_DIRTY == "FAILED_DIRTY"
OPERATION_FAILED_DISKFULL == "FAILED_DISKFULL"

GC_NONE == "GC_NONE"
GC_SIMPLE == "GC_SIMPLE"

(* The values the configuration and the callers' arguments are drawn from. *)
MinTimeChoices == {0, 100}
DirtinessChoices == {<<1, 2>>, <<1, 1>>}
DeathTimeChoices == {-1, 7}

Blocks == 0 .. (total_blocks - 1)
Pages == 0 .. (pages_per_block - 1)

----------------------------------------------------------------------------
(* The disk as one value, so that an operation can be applied to the       *)
(* result of another one.                                                  *)
Disk ==
    [ftl |-> ftl, empty |-> empty, dirty |-> dirty, death_times |-> death_times,
     elapsed_time |-> elapsed_time,
     host_page_write_request |-> host_page_write_request,
     page_write_executed |-> page_write_executed,
     page_write_failed |-> page_write_failed,
     host_page_read_request |-> host_page_read_request,
     page_read_executed |-> page_read_executed,
     block_erase_executed |-> block_erase_executed,
     gc_forced_count |-> gc_forced_count]

Install(d) ==
    /\ ftl' = d.ftl
    /\ empty' = d.empty
    /\ dirty' = d.dirty
    /\ death_times' = d.death_times
    /\ elapsed_time' = d.elapsed_time
    /\ host_page_write_request' = d.host_page_write_request
    /\ page_write_executed' = d.page_write_executed
    /\ page_write_failed' = d.page_write_failed
    /\ host_page_read_request' = d.host_page_read_request
    /\ page_read_executed' = d.page_read_executed
    /\ block_erase_executed' = d.block_erase_executed
    /\ gc_forced_count' = d.gc_forced_count

(* The decorators check_block and check_page: the call is refused with a   *)
(* range error, before the decorated method starts, unless the index is    *)
(* one of the disk.                                                        *)
check_block(block) == 0 <= block /\ block < total_blocks

check_page(page) == 0 <= page /\ page < pages_per_block

OPERATION_RANGE_ERROR == "RANGE_ERROR"

range_error(d) ==
    [d |-> d, res |-> FALSE, status |-> OPERATION_RANGE_ERROR, trace |-> << >>]

(* WritePolicyDefault.full_block_write_policy: no alternate placement. *)
full_block_write_policy(d, block, page) == FALSE

(* A slip of get_empty_page: the scan keeps the last EMPTY page it meets. *)
get_empty_page_last(d, block) ==
    CHOOSE p \in Pages :
        /\ d.ftl[block][p] = PAGE_EMPTY
        /\ \A q \in Pages : q > p => d.ftl[block][q] # PAGE_EMPTY

(* get_empty_page: the first EMPTY page of the block, in ascending order.  *)
(* Its callers have checked that the block holds an EMPTY page.            *)
get_empty_page(d, block) ==
    CHOOSE p \in Pages :
        /\ d.ftl[block][p] = PAGE_EMPTY
        /\ \A q \in Pages : q < p => d.ftl[block][q] # PAGE_EMPTY

(* A slip of the EMPTY branch: the death time is not recorded. *)
raw_write_empty_undated(d, block, page, death_time) ==
    [d |-> [d EXCEPT !.ftl[block][page] = PAGE_IN_USE,
                     !.empty[block] = @ - 1,
                     !.elapsed_time = @ + write_page_time,
                     !.page_write_executed = @ + 1],
     res |-> TRUE, status |-> OPERATION_SUCCESS]

(* raw_write_page on an EMPTY page: the page is written in place. *)
raw_write_empty(d, block, page, death_time) ==
    [d |-> [d EXCEPT !.ftl[block][page] = PAGE_IN_USE,
                     !.death_times[block][page] = death_time,
                     !.empty[block] = @ - 1,
                     !.elapsed_time = @ + write_page_time,
                     !.page_write_executed = @ + 1],
     res |-> TRUE, status |-> OPERATION_SUCCESS]

(* A slip of the full-block branch: the refused write is counted as        *)
(* written.                                                                *)
raw_write_full_written(d, block, page) ==
    IF full_block_write_policy(d, block, page)
    THEN [d |-> d, res |-> TRUE, status |-> OPERATION_SUCCESS]
    ELSE [d |-> [d EXCEPT !.page_write_failed = @ + 1,
                          !.page_write_executed = @ + 1],
          res |-> FALSE, status |-> OPERATION_FAILED_DISKFULL]

(* A slip of the full-block branch: the failure is not tallied. *)
raw_write_full_untallied(d, block, page) ==
    IF full_block_write_policy(d, block, page)
    THEN [d |-> d, res |-> TRUE, status |-> OPERATION_SUCCESS]
    ELSE [d |-> d, res |-> FALSE, status |-> OPERATION_FAILED_DISKFULL]

(* A slip of the full-block branch: the failed write is charged its time. *)
raw_write_full_timed(d, block, page) ==
    IF full_block_write_policy(d, block, page)
    THEN [d |-> d, res |-> TRUE, status |-> OPERATION_SUCCESS]
    ELSE [d |-> [d EXCEPT !.page_write_failed = @ + 1,
                          !.elapsed_time = @ + write_page_time],
          res |-> FALSE, status |-> OPERATION_FAILED_DISKFULL]

(* raw_write_page on an IN_USE page of a block without an EMPTY page: the  *)
(* write policy decides, and updates the statistics itself if it succeeds. *)
raw_write_full(d, block, page) ==
    IF full_block_write_policy(d, block, page)
    THEN [d |-> d, res |-> TRUE, status |-> OPERATION_SUCCESS]
    ELSE [d |-> [d EXCEPT !.page_write_failed = @ + 1],
          res |-> FALSE, status |-> OPERATION_FAILED_DISKFULL]

(* A slip of the update branch: the dirty counter is not incremented. *)
raw_write_update_nodirty(d, block, page) ==
    LET newpage == get_empty_page(d, block) IN
    [d |-> [d EXCEPT !.ftl[block] = [@ EXCEPT ![page] = PAGE_DIRTY,
                                              ![newpage] = PAGE_IN_USE],
                     !.empty[block] = @ - 1,
                     !.elapsed_time = @ + write_page_time,
                     !.page_write_executed = @ + 1],
     res |-> TRUE, status |-> OPERATION_SUCCESS]

(* raw_write_page on an IN_USE page of a block with an EMPTY page: the     *)
(* data moves to a new page of the block and the old page becomes DIRTY.   *)
raw_write_update(d, block, page) ==
    LET newpage == get_empty_page(d, block) IN
    [d |-> [d EXCEPT !.ftl[block] = [@ EXCEPT ![page] = PAGE_DIRTY,
                                              ![newpage] = PAGE_IN_USE],
                     !.empty[block] = @ - 1,
                     !.dirty[block] = @ + 1,
                     !.elapsed_time = @ + write_page_time,
                     !.page_write_executed = @ + 1],
     res |-> TRUE, status |-> OPERATION_SUCCESS]

(* raw_write_page *)
raw_write_page(d, block, page, death_time) ==
    LET s == d.ftl[block][page] IN
    IF s = PAGE_EMPTY THEN raw_write_empty(d, block, page, death_time)
    ELSE IF s = PAGE_IN_USE THEN
        IF d.empty[block] <= 0
        THEN raw_write_full(d, block, page)
        ELSE raw_write_update(d, block, page)
    ELSE [d |-> d, res |-> FALSE, status |-> OPERATION_FAILED_DIRTY]

(* A slip of raw_read_page: the read is counted before the status is      *)
(* looked at.                                                              *)
raw_read_page_counting(d, block, page) ==
    IF d.ftl[block][page] = PAGE_IN_USE THEN
        [d |-> [d EXCEPT !.elapsed_time = @ + read_page_time,
                         !.page_read_executed = @ + 1],
         res |-> TRUE, status |-> OPERATION_SUCCESS]
    ELSE
        [d |-> [d EXCEPT !.page_read_executed = @ + 1],
         res |-> FALSE, status |-> OPERATION_FAILED_DIRTY]

(* A slip of raw_read_page: the read is charged the time of a write. *)
raw_read_page_slow(d, block, page) ==
    IF d.ftl[block][page] = PAGE_IN_USE THEN
        [d |-> [d EXCEPT !.elapsed_time = @ + write_page_time,
                         !.page_read_executed = @ + 1],
         res |-> TRUE, status |-> OPERATION_SUCCESS]
    ELSE
        [d |-> d, res |-> FALSE, status |-> OPERATION_FAILED_DIRTY]

(* raw_read_page *)
raw_read_page(d, block, page) ==
    IF d.ftl[block][page] = PAGE_IN_USE THEN
        [d |-> [d EXCEPT !.elapsed_time = @ + read_page_time,
                         !.page_read_executed = @ + 1],
         res |-> TRUE, status |-> OPERATION_SUCCESS]
    ELSE
        [d |-> d, res |-> FALSE, status |-> OPERATION_FAILED_DIRTY]

(* A slip of raw_erase_block: the dirty counter is not reset. *)
raw_erase_block_nodirty(d, block) ==
    [d EXCEPT !.ftl[block] = [p \in Pages |-> PAGE_EMPTY],
              !.empty[block] = pages_per_block,
              !.block_erase_executed = @ + 1,
              !.elapsed_time = @ + erase_block_time]

(* A slip of raw_erase_block: only the DIRTY pages are reset. *)
raw_erase_block_partial(d, block) ==
    LET pages == [p \in Pages |-> IF d.ftl[block][p] = PAGE_DIRTY
                                  THEN PAGE_EMPTY ELSE d.ftl[block][p]]
    IN  [d EXCEPT !.ftl[block] = pages,
                  !.empty[block] = Cardinality({p \in Pages : pages[p] = PAGE_EMPTY}),
                  !.dirty[block] = 0,
                  !.block_erase_executed = @ + 1,
                  !.elapsed_time = @ + erase_block_time]

(* raw_erase_block *)
raw_erase_block(d, block) ==
    [d EXCEPT !.ftl[block] = [p \in Pages |-> PAGE_EMPTY],
              !.empty[block] = pages_per_block,
              !.dirty[block] = 0,
              !.block_erase_executed = @ + 1,
              !.elapsed_time = @ + erase_block_time]

----------------------------------------------------------------------------
(* Garbage collectors. *)

(* check_gc_run of GarbageCollectorSimple: the time elapsed since          *)
(* _last_run is compared with gc_param_mintime; force_run is not read.     *)
check_gc_run_simple(d, force_run) ==
    d.elapsed_time - last_run >= gc_param_mintime

(* check_gc_run of GarbageCollectorNone: the collector never runs. *)
check_gc_run_none(d, force_run) == FALSE

(* check_gc_run of the collector the disk class was assembled with. *)
check_gc_run(d, force_run) ==
    IF gc_name = GC_SIMPLE
    THEN check_gc_run_simple(d, force_run)
    ELSE check_gc_run_none(d, force_run)

(* A slip of check_gc_block: the dirtiness has to be exceeded. *)
check_gc_block_strict(d, block, force_run) ==
    IF force_run /\ d.dirty[block] > 0 THEN TRUE
    ELSE d.dirty[block] * gc_param_dirtiness[2] > gc_param_dirtiness[1] * pages_per_block

(* check_gc_block of GarbageCollectorSimple. The dirtiness is the exact    *)
(* fraction gc_param_dirtiness[1] / gc_param_dirtiness[2].                 *)
check_gc_block(d, block, force_run) ==
    IF force_run /\ d.dirty[block] > 0 THEN TRUE
    ELSE d.dirty[block] * gc_param_dirtiness[2] >= gc_param_dirtiness[1] * pages_per_block

(* execute_gc_block, step 1: read every page from p on, keeping in temp    *)
(* the pages that could be read.                                           *)
RECURSIVE gc_read_pages(_, _, _, _)
gc_read_pages(d, block, p, temp) ==
    IF p >= pages_per_block THEN [d |-> d, temp |-> temp]
    ELSE LET r == raw_read_page(d, block, p) IN
         gc_read_pages(r.d, block, p + 1,
                       [temp EXCEPT ![p] = IF r.res THEN PAGE_IN_USE ELSE PAGE_EMPTY])

(* A slip of the write-back: the page read is not written again. *)
gc_rewrite_page_dropped(d, block, p) == d

(* A slip of the write-back: the page is written to the first EMPTY page   *)
(* of the block instead of its own index.                                  *)
gc_rewrite_page_packed(d, block, p) ==
    raw_write_page(d, block, get_empty_page(d, block), -1).d

(* A slip of the write-back: the write is counted as a request of the host. *)
gc_rewrite_page_hosted(d, block, p) ==
    [raw_write_page(d, block, p, -1).d EXCEPT !.host_page_write_request = @ + 1]

(* execute_gc_block, step 3, for one page: raw_write_page at the same      *)
(* index, with its default death_time.                                     *)
gc_rewrite_page(d, block, p) ==
    raw_write_page(d, block, p, -1).d

(* execute_gc_block, step 3: write again every page from p on that temp    *)
(* holds as IN_USE.                                                        *)
RECURSIVE gc_write_pages(_, _, _, _)
gc_write_pages(d, block, p, temp) ==
    IF p >= pages_per_block THEN d
    ELSE gc_write_pages(IF temp[p] = PAGE_IN_USE
                        THEN gc_rewrite_page(d, block, p)
                        ELSE d,
                        block, p + 1, temp)

(* execute_gc_block: read, erase, write back. *)
execute_gc_block(d, block) ==
    LET step1 == gc_read_pages(d, block, 0, [p \in Pages |-> PAGE_EMPTY])
        step2 == raw_erase_block(step1.d, block)
    IN  gc_write_pages(step2, block, 0, step1.temp)

(* The raw steps execute_gc_block makes, in order, each with the disk it   *)
(* started from and the disk it left.                                      *)
RECURSIVE gc_read_steps(_, _, _)
gc_read_steps(d, block, p) ==
    IF p >= pages_per_block THEN << >>
    ELSE LET r == raw_read_page(d, block, p) IN
         <<[kind |-> "read", block |-> block, from |-> d, to |-> r.d]>>
             \o gc_read_steps(r.d, block, p + 1)

RECURSIVE gc_write_steps(_, _, _, _)
gc_write_steps(d, block, p, temp) ==
    IF p >= pages_per_block THEN << >>
    ELSE IF temp[p] = PAGE_IN_USE
         THEN LET w == gc_rewrite_page(d, block, p) IN
              <<[kind |-> "write", block |-> block, from |-> d, to |-> w]>>
                  \o gc_write_steps(w, block, p + 1, temp)
         ELSE gc_write_steps(d, block, p + 1, temp)

execute_gc_block_steps(d, block) ==
    LET step1 == gc_read_pages(d, block, 0, [p \in Pages |-> PAGE_EMPTY])
        step2 == raw_erase_block(step1.d, block)
    IN  gc_read_steps(d, block, 0)
            \o <<[kind |-> "erase", block |-> block, from |-> step1.d, to |-> step2]>>
            \o gc_write_steps(step2, block, 0, step1.temp)

(* A slip of the loop: it is left after the first block compacted. *)
RECURSIVE gc_blocks_first(_, _, _, _)
gc_blocks_first(d, b, force_run, execution) ==
    IF b >= total_blocks THEN [d |-> d, ret |-> execution]
    ELSE IF check_gc_block(d, b, force_run)
         THEN [d |-> execute_gc_block(d, b), ret |-> TRUE]
         ELSE gc_blocks_first(d, b + 1, force_run, execution)

(* run_gc, the loop over the blocks from b on. *)
RECURSIVE gc_blocks(_, _, _, _)
gc_blocks(d, b, force_run, execution) ==
    IF b >= total_blocks THEN [d |-> d, ret |-> execution]
    ELSE IF check_gc_block(d, b, force_run)
         THEN gc_blocks(execute_gc_block(d, b), b + 1, force_run, TRUE)
         ELSE gc_blocks(d, b + 1, force_run, execution)

(* run_gc, the blocks its loop compacts from b on, in the order it         *)
(* compacts them.                                                          *)
RECURSIVE gc_compacted(_, _, _)
gc_compacted(d, b, force_run) ==
    IF b >= total_blocks THEN << >>
    ELSE IF check_gc_block(d, b, force_run)
         THEN <<b>> \o gc_compacted(execute_gc_block(d, b), b + 1, force_run)
         ELSE gc_compacted(d, b + 1, force_run)

(* run_gc with run_once, the count made for block b: the loop runs over    *)
(* the keys of _ftl[b], which are the page indices and 'empty' and         *)
(* 'dirty', and counts the keys that equal PAGE_DIRTY.                     *)
block_keys == {ToString(p) : p \in Pages} \cup {"empty", "dirty"}

invalid_count(d, b) == Cardinality({k \in block_keys : k = PAGE_DIRTY})

(* run_gc with run_once, the loop over the blocks from b on. *)
RECURSIVE max_invalid_block(_, _, _, _)
max_invalid_block(d, b, max_invalid, best) ==
    IF b >= total_blocks THEN best
    ELSE IF invalid_count(d, b) > max_invalid
         THEN max_invalid_block(d, b + 1, invalid_count(d, b), b)
         ELSE max_invalid_block(d, b + 1, max_invalid, best)

(* run_gc. With run_once a block is chosen and nothing is compacted. *)
run_gc(d, force_run, run_once) ==
    IF run_once THEN [d |-> d, ret |-> max_invalid_block(d, 0, 0, 0)]
    ELSE IF check_gc_run(d, force_run) THEN gc_blocks(d, 0, force_run, FALSE)
    ELSE [d |-> d, ret |-> FALSE]

----------------------------------------------------------------------------
(* Host operations. *)

(* A slip of the count: the request is counted twice. *)
host_write_count_twice(d) ==
    [d EXCEPT !.host_page_write_request = @ + 2]

(* host_write_page, when the raw write succeeded: the host's request is    *)
(* counted.                                                                *)
host_write_count(d) ==
    [d EXCEPT !.host_page_write_request = @ + 1]

(* A slip of the retry: the failed attempt is counted as a host request. *)
host_write_retry_counted(d) ==
    [d EXCEPT !.page_write_failed = @ - 1,
              !.gc_forced_count = @ + 1,
              !.host_page_write_request = @ + 1]

(* A slip of the retry: the forced run is not counted. *)
host_write_retry_uncounted(d) ==
    [d EXCEPT !.page_write_failed = @ - 1]

(* A slip of the retry: the first attempt's failure is not taken back. *)
host_write_retry_kept(d) ==
    [d EXCEPT !.gc_forced_count = @ + 1]

(* host_write_page, before the retry: the failure the raw write counted is *)
(* taken back and the forced run is counted.                               *)
host_write_retry(d) ==
    [d EXCEPT !.page_write_failed = @ - 1,
              !.gc_forced_count = @ + 1]

(* host_write_page. trace lists, for every attempt made, whether run_gc    *)
(* was called with force_run, what run_gc returned, and the status the raw *)
(* write returned.                                                         *)
RECURSIVE host_write_page(_, _, _, _, _, _)
host_write_page(d, block, page, death_time, gc_was_forced, run_gc_once) ==
    LET g == run_gc(d, gc_was_forced, run_gc_once)
        w == raw_write_page(g.d, block, page, death_time)
        attempt == [force |-> gc_was_forced, gc_ran |-> g.ret, status |-> w.status]
    IN  IF w.res THEN
            [d |-> host_write_count(w.d),
             res |-> w.res, status |-> w.status, trace |-> <<attempt>>]
        ELSE IF ~gc_was_forced /\ w.status = OPERATION_FAILED_DISKFULL THEN
            LET retry == host_write_page(host_write_retry(w.d),
                                         block, page, death_time, TRUE, FALSE)
            IN  [retry EXCEPT !.trace = <<attempt>> \o @]
        ELSE
            [d |-> w.d, res |-> w.res, status |-> w.status, trace |-> <<attempt>>]

(* host_read_page *)
host_read_page(d, block, page) ==
    LET g == run_gc(d, FALSE, FALSE)
        r == raw_read_page(g.d, block, page)
    IN  IF r.res
        THEN [d |-> [r.d EXCEPT !.host_page_read_request = @ + 1],
              res |-> r.res, status |-> r.status]
        ELSE r

----------------------------------------------------------------------------
(* The death-time write path. *)

OPERATION_TYPE_ERROR == "TYPE_ERROR"

(* The keys of _ftl[block] that are page indices. *)
page_keys == {ToString(p) : p \in Pages}

(* get_deathtime_score_for_block, the sum over the page keys from p on. *)
RECURSIVE deathtime_square_sum(_, _, _, _)
deathtime_square_sum(d, block, p, death_time) ==
    IF p >= pages_per_block THEN 0
    ELSE (d.death_times[block][p] - death_time) * (d.death_times[block][p] - death_time)
             + deathtime_square_sum(d, block, p + 1, death_time)

(* get_deathtime_score_for_block. The loop runs over the keys of           *)
(* _ftl[block]: no key is skipped as PAGE_EMPTY, every page index adds its *)
(* square, and the key 'empty' is then used as an index of the list        *)
(* _death_times[block], which raises TypeError. square is the square of    *)
(* the score times the number of keys counted.                             *)
get_deathtime_score_for_block(d, block, death_time) ==
    IF \E k \in block_keys : k # PAGE_EMPTY /\ k \notin page_keys
    THEN [error |-> TRUE, square |-> 0, n |-> 0]
    ELSE [error |-> FALSE,
          square |-> deathtime_square_sum(d, block, 0, death_time),
          n |-> pages_per_block]

(* get_min_deathtime_block, the loop over the blocks from b on; the mean   *)
(* root square kept so far is sqrt(best_square / best_n).                  *)
RECURSIVE min_deathtime_block(_, _, _, _, _, _)
min_deathtime_block(d, b, death_time, best_square, best_n, best) ==
    IF b >= total_blocks
    THEN [error |-> FALSE, block |-> best, page |-> get_empty_page(d, best)]
    ELSE LET score == get_deathtime_score_for_block(d, b, death_time) IN
         IF score.error THEN [error |-> TRUE, block |-> best, page |-> 0]
         ELSE IF best_square * score.n > score.square * best_n
              THEN min_deathtime_block(d, b + 1, death_time, score.square, score.n, b)
              ELSE min_deathtime_block(d, b + 1, death_time, best_square, best_n, best)

(* get_min_deathtime_block *)
get_min_deathtime_block(d, block, page, death_time) ==
    IF death_time = -1 THEN [error |-> FALSE, block |-> block, page |-> page]
    ELSE min_deathtime_block(d, 0, death_time, total_blocks * total_blocks, 1, block)

(* host_deathtime_page_write. On an EMPTY page the block and page found by *)
(* get_min_deathtime_block are not used: the page asked for is written.    *)
(* On any other page host_write_page is called for block 0, page 0, with   *)
(* no death time and run_gc_once.                                          *)
host_deathtime_page_write(d, block, page, death_time) ==
    IF d.ftl[block][page] = PAGE_EMPTY THEN
        LET optimized == get_min_deathtime_block(d, block, page, death_time)
            w == raw_write_page(d, block, page, death_time)
        IN  IF optimized.error
            THEN [d |-> d, res |-> FALSE, status |-> OPERATION_TYPE_ERROR, trace |-> << >>]
            ELSE [d |-> IF w.res THEN host_write_count(w.d) ELSE w.d,
                  res |-> w.res, status |-> w.status, trace |-> << >>]
    ELSE host_write_page(d, 0, 0, -1, FALSE, TRUE)

----------------------------------------------------------------------------
(* The public methods as a caller meets them: behind their decorators.     *)

host_deathtime_page_write_call(d, block, page, death_time) ==
    IF check_block(block) /\ check_page(page)
    THEN host_deathtime_page_write(d, block, page, death_time)
    ELSE range_error(d)

raw_write_page_call(d, block, page, death_time) ==
    IF check_block(block) /\ check_page(page)
    THEN raw_write_page(d, block, page, death_time)
    ELSE range_error(d)

raw_read_page_call(d, block, page) ==
    IF check_block(block) /\ check_page(page)
    THEN raw_read_page(d, block, page)
    ELSE range_error(d)

raw_erase_block_call(d, block) ==
    IF check_block(block)
    THEN [d |-> raw_erase_block(d, block), res |-> TRUE, status |-> OPERATION_SUCCESS]
    ELSE range_error(d)

execute_gc_block_call(d, block) ==
    IF check_block(block)
    THEN [d |-> execute_gc_block(d, block), res |-> TRUE, status |-> OPERATION_SUCCESS]
    ELSE range_error(d)

(* A slip of host_write_page: the collector is run before the indices are  *)
(* looked at.                                                              *)
host_write_page_call_late(d, block, page, death_time) ==
    IF check_block(block) /\ check_page(page)
    THEN host_write_page(d, block, page, death_time, FALSE, FALSE)
    ELSE range_error(run_gc(d, FALSE, FALSE).d)

host_write_page_call(d, block, page, death_time) ==
    IF check_block(block) /\ check_page(page)
    THEN host_write_page(d, block, page, death_time, FALSE, FALSE)
    ELSE range_error(d)

host_read_page_call(d, block, page) ==
    IF check_block(block) /\ check_page(page)
    THEN host_read_page(d, block, page)
    ELSE range_error(d)

----------------------------------------------------------------------------
(* The record of a public call. pre is the status the addressed page had   *)
(* when the call was made; trace is what host_write_page did; reads counts *)
(* the raw_read_page calls made in a row on the same IN_USE page, and base *)
(* is the disk as it was before the first of them; fresh tells that the    *)
(* calls made so far were host reads and host writes to EMPTY pages.       *)
NoCall ==
    [op |-> "init", block |-> 0, page |-> 0, death_time |-> -1, force |-> FALSE,
     status |-> "", pre |-> "", trace |-> << >>, reads |-> 0, base |-> Disk,
     fresh |-> FALSE, follow |-> 0, same |-> 0, ret |-> -1]

PreStatus(block, page) ==
    IF check_block(block) /\ check_page(page) THEN ftl[block][page] ELSE ""

(* The addresses a caller passes: those of the disk and some outside it. *)
BadBlocks == {-1, total_blocks}
BadAddresses ==
    {<<-1, 0>>, <<total_blocks, 0>>, <<0, -1>>, <<0, pages_per_block>>,
     <<total_blocks, pages_per_block>>}
Addresses == (Blocks \X Pages) \cup BadAddresses

CanCall == ncalls < MaxCalls

Called(c) ==
    /\ ncalls' = ncalls + 1
    /\ call' = c
    /\ before' = Disk
    /\ UNCHANGED config

RawWrite(block, page, death_time) ==
    /\ CanCall
    /\ \E r \in {raw_write_page_call(Disk, block, page, death_time)} :
           /\ Install(r.d)
           /\ Called([NoCall EXCEPT !.op = "raw_write", !.block = block,
                                    !.page = page, !.death_time = death_time,
                                    !.status = r.status,
                                    !.pre = PreStatus(block, page)])

RawRead(block, page) ==
    /\ CanCall
    /\ \E r \in {raw_read_page_call(Disk, block, page)} :
           LET readable == PreStatus(block, page) = PAGE_IN_USE
               again == /\ call.op = "raw_read"
                        /\ call.block = block
                        /\ call.page = page
                        /\ call.reads > 0
           IN  /\ Install(r.d)
               /\ Called([NoCall EXCEPT
                      !.op = "raw_read", !.block = block, !.page = page,
                      !.status = r.status, !.pre = PreStatus(block, page),
                      !.reads = IF ~readable THEN 0
                                ELSE IF again THEN call.reads + 1 ELSE 1,
                      !.base = IF readable /\ again THEN call.base ELSE Disk])

RawErase(block) ==
    /\ CanCall
    /\ \E r \in {raw_erase_block_call(Disk, block)} :
           /\ Install(r.d)
           /\ Called([NoCall EXCEPT !.op = "raw_erase", !.block = block,
                                    !.status = r.status])

GcRun(force_run) ==
    /\ CanCall
    /\ \E g \in {run_gc(Disk, force_run, FALSE)} :
           /\ Install(g.d)
           /\ Called([NoCall EXCEPT !.op = "run_gc", !.force = force_run,
                                    !.status = IF g.ret THEN "RAN" ELSE "NOT_RUN"])

(* execute_gc_block called on its own, on a disk assembled with the        *)
(* simple collector.                                                       *)
GcBlock(block) ==
    /\ CanCall
    /\ gc_name = GC_SIMPLE
    /\ \E r \in {execute_gc_block_call(Disk, block)} :
           /\ Install(r.d)
           /\ Called([NoCall EXCEPT !.op = "execute_gc_block", !.block = block,
                                    !.status = r.status])

HostWrite(block, page, death_time) ==
    /\ CanCall
    /\ \E r \in {host_write_page_call(Disk, block, page, death_time)} :
           /\ Install(r.d)
           /\ Called([NoCall EXCEPT !.op = "host_write", !.block = block,
                                    !.page = page, !.death_time = death_time,
                                    !.status = r.status,
                                    !.pre = PreStatus(block, page),
                                    !.trace = r.trace,
                                    !.fresh = call.fresh
                                              /\ PreStatus(block, page) = PAGE_EMPTY])

HostRead(block, page) ==
    /\ CanCall
    /\ \E r \in {host_read_page_call(Disk, block, page)} :
           /\ Install(r.d)
           /\ Called([NoCall EXCEPT !.op = "host_read", !.block = block,
                                    !.page = page, !.status = r.status,
                                    !.pre = PreStatus(block, page),
                                    !.fresh = call.fresh])

----------------------------------------------------------------------------
(* The collector the disk class is assembled with, and its parameters. *)
GcInit ==
    /\ \/ /\ gc_name = GC_NONE
          /\ gc_param_mintime = 0
          /\ gc_param_dirtiness = <<1, 1>>
       \/ /\ gc_name = GC_SIMPLE
          /\ gc_param_mintime \in MinTimeChoices
          /\ gc_param_dirtiness \in DirtinessChoices
    /\ last_run = 0

(* The disk as __init__ leaves it. *)
DiskInit ==
    /\ ftl = [b \in Blocks |-> [p \in Pages |-> PAGE_EMPTY]]
    /\ empty = [b \in Blocks |-> pages_per_block]
    /\ dirty = [b \in Blocks |-> 0]
    /\ death_times = [b \in Blocks |-> [p \in Pages |-> -1]]
    /\ elapsed_time = 0
    /\ host_page_write_request = 0
    /\ page_write_executed = 0
    /\ page_write_failed = 0
    /\ host_page_read_request = 0
    /\ page_read_executed = 0
    /\ block_erase_executed = 0
    /\ gc_forced_count = 0
    /\ call = [NoCall EXCEPT !.fresh = TRUE]
    /\ before = Disk
    /\ ncalls = 0

Init ==
    /\ total_blocks \in 1 .. MaxBlocks
    /\ pages_per_block \in 2 .. MaxPages
    /\ GcInit
    /\ DiskInit

Next ==
    \/ \E a \in Addresses, t \in DeathTimeChoices : RawWrite(a[1], a[2], t)
    \/ \E a \in Addresses : RawRead(a[1], a[2])
    \/ \E b \in Blocks \cup BadBlocks : RawErase(b)
    \/ \E f \in BOOLEAN : GcRun(f)
    \/ \E b \in Blocks \cup BadBlocks : GcBlock(b)
    \/ \E a \in Addresses, t \in DeathTimeChoices : HostWrite(a[1], a[2], t)
    \/ \E a \in Addresses : HostRead(a[1], a[2])

Spec == Init /\ [][Next]_vars

----------------------------------------------------------------------------
(* The disk of the documented scenario: 2 blocks of 4 pages, written by    *)
(* the host in block 0, with the collector's checks called from outside.   *)

ScenarioCalls == 5

CanCallScenario == ncalls < ScenarioCalls

(* The page that holds the data written first to page 0 of block 0, when   *)
(* every call so far was an update of the page holding it.                 *)
LivePage == IF ncalls <= 1 THEN 0 ELSE ncalls - 1

(* host_write_page on block 0. same counts the calls made so far when all  *)
(* of them were host writes to page 0; follow counts them when each of     *)
(* them was a host write to the page that held the data.                   *)
ScenarioWrite(page) ==
    /\ CanCallScenario
    /\ \E r \in {host_write_page_call(Disk, 0, page, -1)} :
           /\ Install(r.d)
           /\ Called([NoCall EXCEPT
                  !.op = "host_write", !.page = page,
                  !.status = r.status, !.pre = PreStatus(0, page),
                  !.trace = r.trace,
                  !.same = IF page = 0 /\ call.same = ncalls
                           THEN ncalls + 1 ELSE 0,
                  !.follow = IF page = LivePage /\ call.follow = ncalls
                             THEN ncalls + 1 ELSE 0])

ScenarioDeathTimeWrite(block, page, death_time) ==
    /\ CanCallScenario
    /\ \E r \in {host_deathtime_page_write_call(Disk, block, page, death_time)} :
           /\ Install(r.d)
           /\ Called([NoCall EXCEPT
                  !.op = "host_deathtime_write", !.block = block, !.page = page,
                  !.death_time = death_time, !.status = r.status,
                  !.pre = PreStatus(block, page), !.trace = r.trace])

(* check_gc_run of the simple collector, called on its own. *)
CheckGcRun(force_run) ==
    /\ CanCallScenario
    /\ gc_name = GC_SIMPLE
    /\ UNCHANGED <<stats, flash>>
    /\ Called([NoCall EXCEPT
           !.op = "check_gc_run", !.force = force_run,
           !.status = IF check_gc_run_simple(Disk, force_run) THEN "TRUE" ELSE "FALSE"])

(* check_gc_block of the simple collector, called on its own. *)
CheckGcBlock(block, force_run) ==
    /\ CanCallScenario
    /\ gc_name = GC_SIMPLE
    /\ UNCHANGED <<stats, flash>>
    /\ Called([NoCall EXCEPT
           !.op = "check_gc_block", !.block = block, !.force = force_run,
           !.status = IF check_gc_block(Disk, block, force_run) THEN "TRUE" ELSE "FALSE"])

ScenarioInit ==
    /\ total_blocks = 2
    /\ pages_per_block = 4
    /\ GcInit
    /\ DiskInit

ScenarioNext ==
    \/ \E p \in Pages : ScenarioWrite(p)
    \/ \E b \in Blocks, p \in Pages, t \in DeathTimeChoices : ScenarioDeathTimeWrite(b, p, t)
    \/ \E f \in BOOLEAN : CheckGcRun(f)
    \/ \E b \in Blocks, f \in BOOLEAN : CheckGcBlock(b, f)

ScenarioSpec == ScenarioInit /\ [][ScenarioNext]_vars

----------------------------------------------------------------------------
(* The collector driven from outside, on a disk of 2 blocks of 3 pages     *)
(* filled by raw writes.                                                   *)

GcCalls == 5

CanCallGc == ncalls < GcCalls

GcWrite(block, page) ==
    /\ CanCallGc
    /\ \E r \in {raw_write_page_call(Disk, block, page, -1)} :
           /\ Install(r.d)
           /\ Called([NoCall EXCEPT !.op = "raw_write", !.block = block,
                                    !.page = page, !.status = r.status,
                                    !.pre = PreStatus(block, page)])

GcRunAll(force_run) ==
    /\ CanCallGc
    /\ \E g \in {run_gc(Disk, force_run, FALSE)} :
           /\ Install(g.d)
           /\ Called([NoCall EXCEPT !.op = "run_gc", !.force = force_run,
                                    !.status = IF g.ret THEN "RAN" ELSE "NOT_RUN"])

(* run_gc with run_once: what it returns is a block. *)
GcRunOnce(force_run) ==
    /\ CanCallGc
    /\ \E g \in {run_gc(Disk, force_run, TRUE)} :
           /\ Install(g.d)
           /\ Called([NoCall EXCEPT !.op = "run_gc_once", !.force = force_run,
                                    !.ret = g.ret])

GcSpecInit ==
    /\ total_blocks = 2
    /\ pages_per_block = 3
    /\ GcInit
    /\ DiskInit

GcSpecNext ==
    \/ \E b \in Blocks, p \in Pages : GcWrite(b, p)
    \/ \E f \in BOOLEAN : GcRunAll(f)
    \/ \E f \in BOOLEAN : GcRunOnce(f)

GcSpec == GcSpecInit /\ [][GcSpecNext]_vars

----------------------------------------------------------------------------
(* The disk used by the host alone, with the collector that never runs.   *)

HostCalls == 5

CanCallHost == ncalls < HostCalls

HostOnlyWrite(block, page) ==
    /\ CanCallHost
    /\ \E r \in {host_write_page_call(Disk, block, page, -1)} :
           /\ Install(r.d)
           /\ Called([NoCall EXCEPT !.op = "host_write", !.block = block,
                                    !.page = page, !.status = r.status,
                                    !.pre = PreStatus(block, page),
                                    !.trace = r.trace])

HostOnlyRead(block, page) ==
    /\ CanCallHost
    /\ \E r \in {host_read_page_call(Disk, block, page)} :
           /\ Install(r.d)
           /\ Called([NoCall EXCEPT !.op = "host_read", !.block = block,
                                    !.page = page, !.status = r.status,
                                    !.pre = PreStatus(block, page)])

HostInit ==
    /\ total_blocks \in 1 .. 2
    /\ pages_per_block \in 2 .. 3
    /\ gc_name = GC_NONE
    /\ gc_param_mintime = 0
    /\ gc_param_dirtiness = <<1, 1>>
    /\ last_run = 0
    /\ DiskInit

HostNext ==
    \/ \E b \in Blocks, p \in Pages : HostOnlyWrite(b, p)
    \/ \E b \in Blocks, p \in Pages : HostOnlyRead(b, p)

HostSpec == HostInit /\ [][HostNext]_vars

----------------------------------------------------------------------------
(* Properties. In each of them call is the public call that produced the   *)
(* state and before is the disk that call started from.                    *)

CountStatus(b, s) == Cardinality({p \in Pages : ftl[b][p] = s})

HostCallStatuses ==
    {OPERATION_SUCCESS, OPERATION_FAILED_DIRTY, OPERATION_FAILED_DISKFULL}

(* C1: in every reachable state, for every block, the stored empty counter *)
(* is the number of EMPTY pages, the stored dirty counter is the number of *)
(* DIRTY pages, both are >= 0 and their sum is at most pages_per_block.    *)
C1_CountersMatchPages ==
    \A b \in Blocks :
        /\ empty[b] = CountStatus(b, PAGE_EMPTY)
        /\ dirty[b] = CountStatus(b, PAGE_DIRTY)
        /\ empty[b] >= 0
        /\ dirty[b] >= 0
        /\ empty[b] + dirty[b] <= pages_per_block
        /\ pages_per_block - empty[b] - dirty[b] = CountStatus(b, PAGE_IN_USE)

(* A disk on which a block was compacted and then updated: it holds an     *)
(* erased block with a DIRTY page, an IN_USE page and nothing EMPTY.       *)
C1_Witness ==
    /\ block_erase_executed > 0
    /\ \E b \in Blocks : dirty[b] > 0 /\ empty[b] + dirty[b] < pages_per_block

(* C2: a host_write call adds exactly 1 to host_write_requests when its    *)
(* final result is Success, on the first attempt or on the retry, and      *)
(* leaves it unchanged when the final result is DiskFull or FailedDirty    *)
(* (and when the call was refused for its indices).                        *)
C2_HostWriteCountedOnce ==
    call.op = "host_write" =>
        /\ call.status \in HostCallStatuses \cup {OPERATION_RANGE_ERROR}
        /\ host_page_write_request =
               before.host_page_write_request
               + (IF call.status = OPERATION_SUCCESS THEN 1 ELSE 0)

(* A host_write that succeeded on its forced retry. *)
C2_Witness ==
    /\ call.op = "host_write"
    /\ Len(call.trace) = 2
    /\ call.status = OPERATION_SUCCESS

(* C3: a host_write makes at most two raw write attempts; it makes the     *)
(* second one exactly when the first returned DiskFull; the second follows *)
(* a run_gc called with force, gc_forced_count grows by exactly 1 in that  *)
(* call, and the second attempt's status, Success or DiskFull, is final.   *)
C3_OneForcedRetry ==
    (call.op = "host_write" /\ call.status # OPERATION_RANGE_ERROR) =>
        /\ Len(call.trace) \in {1, 2}
        /\ call.trace[1].force = FALSE
        /\ Len(call.trace) = 2 <=> call.trace[1].status = OPERATION_FAILED_DISKFULL
        /\ Len(call.trace) = 1 =>
               /\ call.status = call.trace[1].status
               /\ gc_forced_count = before.gc_forced_count
        /\ Len(call.trace) = 2 =>
               /\ call.trace[2].force = TRUE
               /\ gc_forced_count = before.gc_forced_count + 1
               /\ call.trace[2].status \in {OPERATION_SUCCESS, OPERATION_FAILED_DISKFULL}
               /\ call.status = call.trace[2].status

(* A host_write whose forced run_gc compacted a block before the retry. *)
C3_Witness ==
    /\ call.op = "host_write"
    /\ Len(call.trace) = 2
    /\ call.trace[2].gc_ran
    /\ block_erase_executed = before.block_erase_executed + 1

(* C4: a host_write adds exactly 1 to pages_write_failed when its final    *)
(* result is DiskFull and leaves it unchanged otherwise; host_read and     *)
(* run_gc leave it unchanged.                                              *)
C4_WriteFailedTally ==
    /\ call.op = "host_write" =>
           page_write_failed =
               before.page_write_failed
               + (IF call.status = OPERATION_FAILED_DISKFULL THEN 1 ELSE 0)
    /\ call.op \in {"host_read", "run_gc"} =>
           page_write_failed = before.page_write_failed

(* A host_write that ended DiskFull after its retry. *)
C4_Witness ==
    /\ call.op = "host_write"
    /\ Len(call.trace) = 2
    /\ call.status = OPERATION_FAILED_DISKFULL

(* C5: after every public operation each statistic is at least what it was *)
(* before the operation.                                                   *)
C5_StatisticsMonotonic ==
    call.op # "init" =>
        /\ elapsed_time >= before.elapsed_time
        /\ host_page_write_request >= before.host_page_write_request
        /\ host_page_read_request >= before.host_page_read_request
        /\ page_write_executed >= before.page_write_executed
        /\ page_read_executed >= before.page_read_executed
        /\ block_erase_executed >= before.block_erase_executed
        /\ page_write_failed >= before.page_write_failed
        /\ gc_forced_count >= before.gc_forced_count

(* A host_write whose first failure was taken back and whose retry wrote   *)
(* the page: the call in which pages_write_failed is decremented.          *)
C5_Witness ==
    /\ call.op = "host_write"
    /\ Len(call.trace) = 2
    /\ call.status = OPERATION_SUCCESS
    /\ page_write_failed = before.page_write_failed
    /\ gc_forced_count > before.gc_forced_count

LowestEmpty(b) ==
    CHOOSE p \in Pages :
        /\ before.ftl[b][p] = PAGE_EMPTY
        /\ \A q \in 0 .. (p - 1) : before.ftl[b][q] # PAGE_EMPTY

(* C6: raw_write on an IN_USE page of a block that holds an EMPTY page     *)
(* marks the page DIRTY and the lowest EMPTY page of the block IN_USE,     *)
(* takes 1 from the block's empty count, adds 1 to its dirty count, adds   *)
(* write_page_time to elapsed_time and 1 to pages_written, returns Success *)
(* and changes no other block. With 4 pages per block, the second write to *)
(* (0,0) of a new disk moves the data to (0,1): empty 2, dirty 1, 2 pages  *)
(* written.                                                                *)
C6_UpdateRelocatesToFirstEmpty ==
    /\ (call.op = "raw_write" /\ call.pre = PAGE_IN_USE
            /\ before.empty[call.block] > 0) =>
           LET b == call.block
               newpage == LowestEmpty(b)
           IN  /\ call.status = OPERATION_SUCCESS
               /\ ftl = [before.ftl EXCEPT ![b] = [@ EXCEPT ![call.page] = PAGE_DIRTY,
                                                            ![newpage] = PAGE_IN_USE]]
               /\ empty = [before.empty EXCEPT ![b] = @ - 1]
               /\ dirty = [before.dirty EXCEPT ![b] = @ + 1]
               /\ elapsed_time = before.elapsed_time + write_page_time
               /\ page_write_executed = before.page_write_executed + 1
    /\ (call.op = "raw_write" /\ call.block = 0 /\ call.page = 0
            /\ call.pre = PAGE_IN_USE /\ ncalls = 2 /\ pages_per_block = 4) =>
           /\ ftl[0] = [p \in Pages |-> IF p = 0 THEN PAGE_DIRTY
                                        ELSE IF p = 1 THEN PAGE_IN_USE
                                        ELSE PAGE_EMPTY]
           /\ empty[0] = 2
           /\ dirty[0] = 1
           /\ page_write_executed = 2

(* An update of a page that is not the first of its block, with the data   *)
(* moved to a page before it while a later page was EMPTY too.             *)
C6_Witness ==
    /\ call.op = "raw_write"
    /\ call.pre = PAGE_IN_USE
    /\ call.status = OPERATION_SUCCESS
    /\ \E p, q \in Pages :
           /\ p < call.page /\ call.page < q
           /\ before.ftl[call.block][p] = PAGE_EMPTY
           /\ before.ftl[call.block][q] = PAGE_EMPTY
           /\ ftl[call.block][p] = PAGE_IN_USE

(* C7: raw_write on an EMPTY page marks that page IN_USE, records the      *)
(* death time for it, takes 1 from the block's empty count, adds           *)
(* write_page_time to elapsed_time and 1 to pages_written, returns Success *)
(* and changes nothing else.                                               *)
C7_WriteEmptyPage ==
    (call.op = "raw_write" /\ call.pre = PAGE_EMPTY) =>
        /\ call.status = OPERATION_SUCCESS
        /\ Disk = [before EXCEPT
                       !.ftl[call.block][call.page] = PAGE_IN_USE,
                       !.death_times[call.block][call.page] = call.death_time,
                       !.empty[call.block] = @ - 1,
                       !.elapsed_time = @ + write_page_time,
                       !.page_write_executed = @ + 1]

(* A write with a death time to an EMPTY page of a disk already in use. *)
C7_Witness ==
    /\ call.op = "raw_write"
    /\ call.pre = PAGE_EMPTY
    /\ call.death_time # -1
    /\ before.page_write_executed > 0

(* C8: raw_write on an IN_USE page of a block without an EMPTY page        *)
(* returns DiskFull, adds exactly 1 to pages_write_failed and leaves the   *)
(* page statuses, the block counts, elapsed_time and pages_written alone.  *)
C8_FullBlockWriteFails ==
    (call.op = "raw_write" /\ call.pre = PAGE_IN_USE
         /\ before.empty[call.block] = 0) =>
        /\ call.status = OPERATION_FAILED_DISKFULL
        /\ page_write_failed = before.page_write_failed + 1
        /\ ftl = before.ftl
        /\ empty = before.empty
        /\ dirty = before.dirty
        /\ elapsed_time = before.elapsed_time
        /\ page_write_executed = before.page_write_executed

(* A raw write that found its block full. *)
C8_Witness ==
    /\ call.op = "raw_write"
    /\ call.status = OPERATION_FAILED_DISKFULL
    /\ empty[call.block] = 0

(* C9: raw_write on a DIRTY page, and raw_read on an EMPTY or DIRTY page,  *)
(* return FailedDirty and leave the page statuses, the block counts, the   *)
(* death times and every statistic as they were.                           *)
C9_DiscardedCallsChangeNothing ==
    (\/ call.op = "raw_write" /\ call.pre = PAGE_DIRTY
     \/ call.op = "raw_read" /\ call.pre \in {PAGE_EMPTY, PAGE_DIRTY}) =>
        /\ call.status = OPERATION_FAILED_DIRTY
        /\ Disk = before

(* A raw write to a DIRTY page, with a death time. *)
C9_Witness ==
    /\ call.op = "raw_write"
    /\ call.pre = PAGE_DIRTY
    /\ call.death_time # -1

(* C10: after n raw_read calls in a row on the same IN_USE page, each of   *)
(* which returned Success, the page is IN_USE, pages_read has grown by n   *)
(* and elapsed_time by n * read_page_time since the first of them, and     *)
(* nothing else has changed.                                               *)
C10_RepeatedReads ==
    /\ (call.op = "raw_read" /\ call.pre = PAGE_IN_USE) =>
           /\ call.status = OPERATION_SUCCESS
           /\ call.reads >= 1
    /\ (call.op = "raw_read" /\ call.reads >= 1) =>
           /\ ftl[call.block][call.page] = PAGE_IN_USE
           /\ Disk = [call.base EXCEPT
                          !.page_read_executed = @ + call.reads,
                          !.elapsed_time = @ + call.reads * read_page_time]

(* Two reads in a row of the same page. *)
C10_Witness ==
    /\ call.op = "raw_read"
    /\ call.reads >= 2

InRange(c) ==
    /\ check_block(c.block)
    /\ c.op # "raw_erase" => check_page(c.page)

(* C11: raw_erase of a block, whatever the block held, sets every page of  *)
(* the block to EMPTY, its empty count to pages_per_block and its dirty    *)
(* count to 0, adds erase_block_time to elapsed_time and 1 to              *)
(* blocks_erased, succeeds, and leaves every other block as it was.        *)
C11_EraseResetsBlock ==
    (call.op = "raw_erase" /\ check_block(call.block)) =>
        /\ call.status = OPERATION_SUCCESS
        /\ \A p \in Pages : ftl[call.block][p] = PAGE_EMPTY
        /\ Disk = [before EXCEPT
                       !.ftl[call.block] = [p \in Pages |-> PAGE_EMPTY],
                       !.empty[call.block] = pages_per_block,
                       !.dirty[call.block] = 0,
                       !.elapsed_time = @ + erase_block_time,
                       !.block_erase_executed = @ + 1]

(* The erase of a block that held a DIRTY page and an IN_USE page. *)
C11_Witness ==
    /\ call.op = "raw_erase"
    /\ check_block(call.block)
    /\ before.dirty[call.block] > 0
    /\ before.empty[call.block] + before.dirty[call.block] < pages_per_block

InUseBefore(b) == {p \in Pages : before.ftl[b][p] = PAGE_IN_USE}

(* C12: after execute_gc_block of a block, a page of the block is IN_USE   *)
(* exactly when it was IN_USE before and every other page is EMPTY; the    *)
(* dirty count is 0 and the empty count is pages_per_block less the number *)
(* of pages that were IN_USE; pages_read and pages_written have each grown *)
(* by that number and blocks_erased by 1.                                  *)
C12_CompactionKeepsIndices ==
    (call.op = "execute_gc_block" /\ check_block(call.block)) =>
        LET b == call.block
            n == Cardinality(InUseBefore(b))
        IN  /\ \A p \in Pages :
                   /\ ftl[b][p] = PAGE_IN_USE <=> before.ftl[b][p] = PAGE_IN_USE
                   /\ before.ftl[b][p] # PAGE_IN_USE => ftl[b][p] = PAGE_EMPTY
            /\ dirty[b] = 0
            /\ empty[b] = pages_per_block - n
            /\ page_read_executed = before.page_read_executed + n
            /\ page_write_executed = before.page_write_executed + n
            /\ block_erase_executed = before.block_erase_executed + 1

(* The compaction of a block whose first page was DIRTY and which held an  *)
(* IN_USE page after it.                                                   *)
C12_Witness ==
    /\ call.op = "execute_gc_block"
    /\ check_block(call.block)
    /\ before.ftl[call.block][0] = PAGE_DIRTY
    /\ InUseBefore(call.block) # {}

(* C13: pages_written is at least host_write_requests in every state, and  *)
(* with the collector that never runs, as long as every host_write made    *)
(* was to a page that was EMPTY and nothing but host calls was made, the   *)
(* two are equal.                                                          *)
C13_WriteAmplification ==
    /\ page_write_executed >= host_page_write_request
    /\ (gc_name = GC_NONE /\ call.fresh) =>
           page_write_executed = host_page_write_request

(* Two host writes to EMPTY pages with the collector that never runs. *)
C13_Witness ==
    /\ gc_name = GC_NONE
    /\ call.fresh
    /\ call.op = "host_write"
    /\ host_page_write_request >= 2

(* C17: a host_write, host_read, raw_write, raw_read or raw_erase whose    *)
(* block is outside 0 .. total_blocks - 1 or whose page is outside         *)
(* 0 .. pages_per_block - 1 ends with the range error, and nothing of the  *)
(* disk has changed: no collector run, no page, count, death time or       *)
(* statistic. A call with indices of the disk does not end that way.       *)
C17_RangeErrorBeforeMutation ==
    call.op \in {"host_write", "host_read", "raw_write", "raw_read", "raw_erase"} =>
        /\ ~InRange(call) => /\ call.status = OPERATION_RANGE_ERROR
                             /\ Disk = before
        /\ InRange(call) => call.status # OPERATION_RANGE_ERROR

(* A host_write with a page index past the block, made on a disk with a    *)
(* block the collector would have compacted.                               *)
C17_Witness ==
    /\ call.op = "host_write"
    /\ ~check_page(call.page)
    /\ call.status = OPERATION_RANGE_ERROR
    /\ gc_name = GC_SIMPLE
    /\ check_gc_run(before, FALSE)
    /\ \E b \in Blocks : check_gc_block(before, b, FALSE)

(* C18: run_gc, forced or not, and execute_gc_block leave                  *)
(* host_write_requests and host_read_requests as they were, whatever they  *)
(* read, erased and wrote.                                                 *)
C18_GcKeepsHostCounters ==
    call.op \in {"run_gc", "execute_gc_block"} =>
        /\ host_page_write_request = before.host_page_write_request
        /\ host_page_read_request = before.host_page_read_request

(* A forced run_gc that read and wrote pages back after host writes. *)
C18_Witness ==
    /\ call.op = "run_gc"
    /\ call.force
    /\ call.status = "RAN"
    /\ page_write_executed > before.page_write_executed
    /\ page_read_executed > before.page_read_executed
    /\ host_page_write_request > 0

(* What one raw step may do to the page statuses. *)
StepAllowed(kind, block, from, to) ==
    \A b \in Blocks, p \in Pages :
        LET s == from.ftl[b][p]
            t == to.ftl[b][p]
        IN  \/ s = t
            \/ /\ kind = "write"
               /\ s = PAGE_EMPTY
               /\ t = PAGE_IN_USE
            \/ /\ kind = "write"
               /\ s = PAGE_IN_USE
               /\ t = PAGE_DIRTY
               /\ \E q \in Pages : /\ from.ftl[b][q] = PAGE_EMPTY
                                   /\ to.ftl[b][q] = PAGE_IN_USE
            \/ /\ kind = "erase"
               /\ b = block
               /\ t = PAGE_EMPTY
               /\ \A q \in Pages : to.ftl[b][q] = PAGE_EMPTY

(* The raw steps of the execute_gc_block call that produced the state. *)
GcSteps == execute_gc_block_steps(before, call.block)

(* C20: a raw write, a raw read or a raw erase, called on its own or made  *)
(* inside execute_gc_block, changes the status of a page only from EMPTY   *)
(* to IN_USE (a write), from IN_USE to DIRTY (an update that moves the     *)
(* data within the block) or to EMPTY, and to EMPTY only in an erase that  *)
(* leaves every page of the block EMPTY.                                   *)
C20_PageStatusTransitions ==
    /\ (call.op = "raw_write" /\ InRange(call)) =>
           StepAllowed("write", call.block, before, Disk)
    /\ (call.op = "raw_read" /\ InRange(call)) =>
           StepAllowed("read", call.block, before, Disk)
    /\ (call.op = "raw_erase" /\ InRange(call)) =>
           StepAllowed("erase", call.block, before, Disk)
    /\ (call.op = "execute_gc_block" /\ InRange(call)) =>
           /\ GcSteps[Len(GcSteps)].to = Disk
           /\ \A i \in 1 .. Len(GcSteps) :
                  /\ StepAllowed(GcSteps[i].kind, GcSteps[i].block,
                                 GcSteps[i].from, GcSteps[i].to)
                  /\ i > 1 => GcSteps[i].from = GcSteps[i - 1].to

(* A compaction that read a page, erased a block holding DIRTY and IN_USE  *)
(* pages and wrote a page back.                                            *)
C20_Witness ==
    /\ call.op = "execute_gc_block"
    /\ InRange(call)
    /\ before.dirty[call.block] > 0
    /\ page_write_executed > before.page_write_executed
    /\ Len(GcSteps) > pages_per_block + 1

Scenario == total_blocks = 2 /\ pages_per_block = 4 /\ gc_name = GC_NONE

(* The claim as the specification words it: every host_write to page 0 of  *)
(* block 0 after the first succeeds and uses up one EMPTY page of block 0, *)
(* until the 4th update returns DiskFull, counted in pages_write_failed    *)
(* and not in host_write_requests.                                         *)
C14_UpdatesOfPageZero ==
    (Scenario /\ call.op = "host_write" /\ call.same >= 1) =>
        /\ call.same \in 1 .. 4 =>
               /\ call.status = OPERATION_SUCCESS
               /\ empty[0] = 4 - call.same
        /\ call.same = 5 =>
               /\ call.status = OPERATION_FAILED_DISKFULL
               /\ before.empty[0] = 0
               /\ page_write_failed = before.page_write_failed + 1
               /\ host_page_write_request = before.host_page_write_request

(* C14, amended: on the disk of 2 blocks of 4 pages with the collector     *)
(* that never runs, after the first host_write to page 0 of block 0 the    *)
(* first update of page 0 succeeds and moves the data to page 1; each      *)
(* update made to the page that then holds the data (page 1, then page 2)  *)
(* succeeds and uses up one EMPTY page of block 0; the 4th update, made to *)
(* page 3 when block 0 has no EMPTY page, returns DiskFull after one       *)
(* forced retry, adds 1 to pages_write_failed and leaves                   *)
(* host_write_requests alone. A host_write made to page 0 again after its  *)
(* first update finds it DIRTY: it returns FailedDirty and changes         *)
(* nothing.                                                                *)
C14_UpdatesOfTheLivePage ==
    /\ (Scenario /\ call.op = "host_write" /\ call.follow >= 1) =>
           /\ call.follow \in 1 .. 4 =>
                  /\ call.status = OPERATION_SUCCESS
                  /\ empty[0] = 4 - call.follow
                  /\ dirty[0] = call.follow - 1
                  /\ ftl[0][call.follow - 1] = PAGE_IN_USE
                  /\ host_page_write_request = call.follow
                  /\ page_write_executed = call.follow
                  /\ page_write_failed = 0
           /\ call.follow = 5 =>
                  /\ call.status = OPERATION_FAILED_DISKFULL
                  /\ before.empty[0] = 0
                  /\ Len(call.trace) = 2
                  /\ page_write_failed = before.page_write_failed + 1
                  /\ gc_forced_count = before.gc_forced_count + 1
                  /\ host_page_write_request = before.host_page_write_request
                  /\ flash = <<before.ftl, before.empty, before.dirty, before.death_times>>
    /\ (Scenario /\ call.op = "host_write" /\ call.same >= 3) =>
           /\ call.status = OPERATION_FAILED_DIRTY
           /\ Disk = before

(* The 4th update of the live page, refused for lack of an EMPTY page. *)
C14_Witness ==
    /\ Scenario
    /\ call.op = "host_write"
    /\ call.follow = 5
    /\ call.status = OPERATION_FAILED_DISKFULL
    /\ page_write_failed = 1

(* C15, as the specification words it: check_gc_run of the simple          *)
(* collector answers true whenever force is set, and without force         *)
(* exactly when elapsed_time - last_run >= gc_param_mintime.               *)
C15_ForcedRunAlwaysDue ==
    call.op = "check_gc_run" =>
        (call.status = "TRUE" <=>
             (call.force \/ elapsed_time - last_run >= gc_param_mintime))

(* C16: check_gc_block of the simple collector answers true without force  *)
(* exactly when dirty / pages_per_block >= the dirtiness parameter (with   *)
(* 1/2 and 4 pages per block: true for 2 DIRTY pages, false for 1), and    *)
(* with force it answers true when the block holds a DIRTY page.           *)
C16_BlockQualifies ==
    call.op = "check_gc_block" =>
        LET n == dirty[call.block]
            yes == call.status = "TRUE"
        IN  /\ ~call.force =>
                   (yes <=> n * gc_param_dirtiness[2]
                                >= gc_param_dirtiness[1] * pages_per_block)
            /\ (~call.force /\ gc_param_dirtiness = <<1, 2>> /\ pages_per_block = 4) =>
                   /\ n = 2 => yes
                   /\ n = 1 => ~yes
            /\ (call.force /\ n > 0) => yes

(* check_gc_block answering true, without force, for a block holding       *)
(* exactly as many DIRTY pages as the dirtiness asks for, 2 of 4.          *)
C16_Witness ==
    /\ call.op = "check_gc_block"
    /\ ~call.force
    /\ gc_param_dirtiness = <<1, 2>>
    /\ dirty[call.block] = 2
    /\ call.status = "TRUE"

(* The pages of block b that are not EMPTY in disk d, and the sum of the   *)
(* squared distances of their death times to death_time.                   *)
ValidPages(d, b) == {p \in Pages : d.ftl[b][p] # PAGE_EMPTY}

RECURSIVE SquareDistance(_, _, _, _)
SquareDistance(d, b, pages, death_time) ==
    IF pages = {} THEN 0
    ELSE LET p == CHOOSE q \in pages : TRUE IN
         (d.death_times[b][p] - death_time) * (d.death_times[b][p] - death_time)
             + SquareDistance(d, b, pages \ {p}, death_time)

(* Block b is at most as far from death_time as block c, by the root mean  *)
(* square over their valid pages.                                          *)
NotFarther(d, b, c, death_time) ==
    SquareDistance(d, b, ValidPages(d, b), death_time) * Cardinality(ValidPages(d, c))
        <= SquareDistance(d, c, ValidPages(d, c), death_time) * Cardinality(ValidPages(d, b))

(* The block the placement by death time is to choose: among the blocks    *)
(* with a valid page and an EMPTY page, the nearest one, the lowest on     *)
(* ties.                                                                   *)
Candidates(d) == {b \in Blocks : ValidPages(d, b) # {} /\ d.empty[b] > 0}

NearestBlock(d, death_time) ==
    CHOOSE b \in Candidates(d) :
        \A c \in Candidates(d) :
            /\ NotFarther(d, b, c, death_time)
            /\ c < b => ~NotFarther(d, c, b, death_time)

(* C19, as the specification words it: a death-time write to an EMPTY page *)
(* with no death time makes the page asked for IN_USE; with a death time   *)
(* it succeeds and makes IN_USE the first EMPTY page of the block whose    *)
(* valid pages are nearest to the death time, and no other page.           *)
C19_DeathTimePlacement ==
    (call.op = "host_deathtime_write" /\ call.pre = PAGE_EMPTY) =>
        /\ call.death_time = -1 =>
               /\ call.status = OPERATION_SUCCESS
               /\ ftl = [before.ftl EXCEPT ![call.block][call.page] = PAGE_IN_USE]
        /\ call.death_time # -1 =>
               /\ call.status = OPERATION_SUCCESS
               /\ \E b \in Blocks :
                      /\ before.empty[b] > 0
                      /\ ftl = [before.ftl EXCEPT
                                    ![b][get_empty_page(before, b)] = PAGE_IN_USE]
                      /\ Candidates(before) # {} => b = NearestBlock(before, call.death_time)

(* C21, as the specification words it: after a run_gc of the simple        *)
(* collector that compacted a block, _last_run is the elapsed time.        *)
C21_LastRunFollowsGc ==
    (call.op = "run_gc" /\ gc_name = GC_SIMPLE /\ call.status = "RAN") =>
        last_run = elapsed_time

(* C24, as the specification words it: with the simple collector, a        *)
(* host_write to an IN_USE page of a block without an EMPTY page ends with *)
(* Success when the block holds a DIRTY page, whatever gc_param_mintime    *)
(* and the elapsed time are, and ends with DiskFull only when the block    *)
(* holds no DIRTY page.                                                    *)
C24_FullBlockUpdateSucceeds ==
    (/\ call.op = "host_write"
     /\ gc_name = GC_SIMPLE
     /\ call.pre = PAGE_IN_USE
     /\ before.empty[call.block] = 0) =>
        /\ before.dirty[call.block] >= 1 => call.status = OPERATION_SUCCESS
        /\ call.status = OPERATION_FAILED_DISKFULL => before.dirty[call.block] = 0

(* C26, as the specification words it: a host_write to a page that is      *)
(* DIRTY when the call is made returns FailedDirty and leaves              *)
(* host_write_requests and pages_written as they were, with every          *)
(* collector.                                                              *)
C26_DirtyTargetFails ==
    (call.op = "host_write" /\ call.pre = PAGE_DIRTY) =>
        /\ call.status = OPERATION_FAILED_DIRTY
        /\ host_page_write_request = before.host_page_write_request
        /\ page_write_executed = before.page_write_executed

(* The blocks the run_gc that opens a host call compacts, and the pages it *)
(* writes back.                                                            *)
DueBefore ==
    /\ gc_name = GC_SIMPLE
    /\ before.elapsed_time - last_run >= gc_param_mintime

CompactedFirst ==
    {b \in Blocks : /\ DueBefore
                    /\ before.dirty[b] * gc_param_dirtiness[2]
                           >= gc_param_dirtiness[1] * pages_per_block}

RewrittenFirst ==
    Cardinality({a \in CompactedFirst \X Pages : before.ftl[a[1]][a[2]] = PAGE_IN_USE})

(* C26, amended: a host_write to a page that is DIRTY when the call is     *)
(* made returns FailedDirty and leaves host_write_requests alone when the  *)
(* run_gc that opens the call does not compact the page's block; the call  *)
(* changes nothing at all when that run_gc compacts no block, as with the  *)
(* collector that never runs. When that run_gc compacts the page's block   *)
(* the page is EMPTY by the time of the raw write: the call returns        *)
(* Success, the page is IN_USE, host_write_requests grows by 1 and         *)
(* pages_written by 1 more than the pages the collector wrote back.        *)
C26_DirtyTargetAtRawWrite ==
    (call.op = "host_write" /\ call.pre = PAGE_DIRTY) =>
        /\ page_write_executed >= before.page_write_executed + RewrittenFirst
        /\ call.block \notin CompactedFirst =>
               /\ call.status = OPERATION_FAILED_DIRTY
               /\ ftl[call.block] = before.ftl[call.block]
               /\ host_page_write_request = before.host_page_write_request
               /\ page_write_executed = before.page_write_executed + RewrittenFirst
        /\ CompactedFirst = {} => Disk = before
        /\ call.block \in CompactedFirst =>
               /\ call.status = OPERATION_SUCCESS
               /\ ftl[call.block][call.page] = PAGE_IN_USE
               /\ host_page_write_request = before.host_page_write_request + 1
               /\ page_write_executed = before.page_write_executed + RewrittenFirst + 1

(* A host_write to a DIRTY page that was written, its block having been    *)
(* compacted first with a page to write back.                              *)
C26_Witness ==
    /\ call.op = "host_write"
    /\ call.pre = PAGE_DIRTY
    /\ call.status = OPERATION_SUCCESS
    /\ RewrittenFirst >= 1

InUseTotal(d) ==
    Cardinality({a \in Blocks \X Pages : d.ftl[a[1]][a[2]] = PAGE_IN_USE})

(* The status the page of a host_write had when its raw write was made:    *)
(* EMPTY if the run_gc that opens the call compacted a block where it was  *)
(* not IN_USE.                                                             *)
StatusAtRawWrite ==
    IF call.block \in CompactedFirst /\ call.pre # PAGE_IN_USE
    THEN PAGE_EMPTY ELSE call.pre

(* C27: the number of IN_USE pages of the disk does not decrease in a      *)
(* host_write, a host_read or a run_gc (execute_gc_block included); it     *)
(* grows by 1 in a host_write whose page was EMPTY when the raw write was  *)
(* made and is unchanged in every other one of these calls.                *)
C27_InUseNeverDecreases ==
    /\ call.op \in {"host_write", "host_read", "run_gc", "execute_gc_block"} =>
           InUseTotal(Disk) >= InUseTotal(before)
    /\ call.op \in {"host_read", "run_gc", "execute_gc_block"} =>
           InUseTotal(Disk) = InUseTotal(before)
    /\ (call.op = "host_write" /\ InRange(call)) =>
           InUseTotal(Disk) = InUseTotal(before)
                                  + (IF StatusAtRawWrite = PAGE_EMPTY THEN 1 ELSE 0)
    /\ (call.op = "host_write" /\ ~InRange(call)) =>
           InUseTotal(Disk) = InUseTotal(before)

(* A host_write that updated a page after its forced retry had compacted   *)
(* the block: pages erased, written back, and as many IN_USE as before.    *)
C27_Witness ==
    /\ call.op = "host_write"
    /\ Len(call.trace) = 2
    /\ call.status = OPERATION_SUCCESS
    /\ block_erase_executed > before.block_erase_executed
    /\ InUseTotal(before) >= 1
    /\ InUseTotal(Disk) = InUseTotal(before)

DirtyPages(d, b) == Cardinality({p \in Pages : d.ftl[b][p] = PAGE_DIRTY})

(* C22, as the specification words it: run_gc with run_once returns the    *)
(* block with the most DIRTY pages, the lowest of them on ties, and        *)
(* changes nothing.                                                        *)
C22_RunOnceSelectsDirtiest ==
    call.op = "run_gc_once" =>
        /\ Disk = before
        /\ call.ret \in Blocks
        /\ \A b \in Blocks :
               /\ DirtyPages(before, b) <= DirtyPages(before, call.ret)
               /\ b < call.ret => DirtyPages(before, b) < DirtyPages(before, call.ret)

(* What check_gc_block answers for block b of the disk the call started    *)
(* from.                                                                   *)
Qualifies(b) ==
    \/ call.force /\ before.dirty[b] > 0
    \/ before.dirty[b] * gc_param_dirtiness[2] >= gc_param_dirtiness[1] * pages_per_block

(* The blocks the run_gc that produced the state compacted, in order. *)
GcOrder == gc_compacted(before, 0, call.force)

RECURSIVE CompactAll(_, _, _)
CompactAll(d, order, i) ==
    IF i > Len(order) THEN d
    ELSE CompactAll(execute_gc_block(d, order[i]), order, i + 1)

(* C23: run_gc without run_once, when check_gc_run answers false, reports  *)
(* that it did not run and changes nothing; when it answers true the       *)
(* blocks are compacted in ascending order, a block is compacted exactly   *)
(* when check_gc_block holds for it as it is visited, every other block    *)
(* keeps its pages and counts, and the run reports that it ran exactly     *)
(* when a block was compacted.                                             *)
C23_RunGcCompactsQualifying ==
    call.op = "run_gc" =>
        /\ ~DueBefore =>
               /\ call.status = "NOT_RUN"
               /\ Disk = before
        /\ DueBefore =>
               /\ \A i \in 1 .. Len(GcOrder) - 1 : GcOrder[i] < GcOrder[i + 1]
               /\ {GcOrder[i] : i \in 1 .. Len(GcOrder)} = {b \in Blocks : Qualifies(b)}
               /\ Disk = CompactAll(before, GcOrder, 1)
               /\ \A b \in Blocks :
                      /\ Qualifies(b) =>
                             /\ ftl[b] = [p \in Pages |->
                                              IF before.ftl[b][p] = PAGE_IN_USE
                                              THEN PAGE_IN_USE ELSE PAGE_EMPTY]
                             /\ dirty[b] = 0
                      /\ ~Qualifies(b) =>
                             /\ ftl[b] = before.ftl[b]
                             /\ empty[b] = before.empty[b]
                             /\ dirty[b] = before.dirty[b]
               /\ block_erase_executed =
                      before.block_erase_executed
                      + Cardinality({b \in Blocks : Qualifies(b)})
               /\ call.status = "RAN" <=> \E b \in Blocks : Qualifies(b)

(* A run_gc that compacted both blocks of the disk. *)
C23_Witness ==
    /\ call.op = "run_gc"
    /\ call.status = "RAN"
    /\ block_erase_executed = before.block_erase_executed + 2
    /\ \A b \in Blocks : before.dirty[b] > 0 /\ dirty[b] = 0

(* C25, as the specification words it: host_deathtime_page_write on a page *)
(* that is not EMPTY does what host_write_page does for the same block,    *)
(* page and death time, with run_gc_once.                                  *)
C25_UpdateKeepsAddress ==
    (call.op = "host_deathtime_write" /\ call.pre \in {PAGE_IN_USE, PAGE_DIRTY}) =>
        /\ call.status = host_write_page(before, call.block, call.page,
                                         call.death_time, FALSE, TRUE).status
        /\ Disk = host_write_page(before, call.block, call.page,
                                  call.death_time, FALSE, TRUE).d
        /\ \A b \in Blocks : b # call.block => ftl[b] = before.ftl[b]

EmptyTotal(d) ==
    Cardinality({a \in Blocks \X Pages : d.ftl[a[1]][a[2]] = PAGE_EMPTY})

(* C28: with the collector that never runs, whatever host_write and        *)
(* host_read calls are made, no block is erased, a DIRTY page stays DIRTY, *)
(* the number of EMPTY pages does not grow, and pages_written and          *)
(* host_write_requests are at most total_blocks * pages_per_block.         *)
C28_NoGcBounds ==
    gc_name = GC_NONE =>
        /\ block_erase_executed = 0
        /\ \A b \in Blocks, p \in Pages :
               before.ftl[b][p] = PAGE_DIRTY => ftl[b][p] = PAGE_DIRTY
        /\ EmptyTotal(Disk) <= EmptyTotal(before)
        /\ page_write_executed = total_blocks * pages_per_block - EmptyTotal(Disk)
        /\ page_write_executed <= total_blocks * pages_per_block
        /\ host_page_write_request <= total_blocks * pages_per_block

(* A disk written to its last page, and a host_write refused on it. *)
C28_Witness ==
    /\ gc_name = GC_NONE
    /\ call.op = "host_write"
    /\ call.status = OPERATION_FAILED_DISKFULL
    /\ page_write_executed = total_blocks * pages_per_block
    /\ EmptyTotal(Disk) = 0
    /\ \E b \in Blocks : dirty[b] > 0

====
